---- MODULE Spec2Model ----
(***************************************************************************)
(* Model of the ICC Streamlit pages:                                       *)
(*   app_kmz_distritos.py  - KMZ generator, one folder per district        *)
(*   app_viewer_kmz.py     - one-ZIP map viewer with filters and exports   *)
(*                                                                         *)
(* Floating point values are modelled as exact rationals <<num, den>>;     *)
(* the inputs are small integers, for which the code's float arithmetic    *)
(* is exact.  Python strings are sequences of one-character strings.       *)
(***************************************************************************)
EXTENDS Integers, Sequences, FiniteSets, TLC

VARIABLES
    coords, centroid,                       \* polygon_centroid: argument, result
    hex_rgb, alpha, kml_color,              \* kml_color_from_hex: arguments, result
    uploaded_zip, estilo_color, kml, dstatus, \* app_kmz_distritos.py script state
    transformer,                            \* app_kmz_distritos.py: transformer is not None
    messages,                               \* app_kmz_distritos.py: st.* messages of the last run
    user_zip,                               \* app_viewer_kmz.py: the ZIP the user works with
    hashseed,                               \* str hash randomisation of the server process
    session_state,                          \* st.session_state of the browser session
    widgets,                                \* widget values of the last script run
    frames,                                 \* secc, and secc_f after each filter of the last run
    offered,                                \* downloads offered by the export tab of the last run
    vstatus                                 \* how the last script run ended

centroidVars == <<coords, centroid>>
colorVars == <<hex_rgb, alpha, kml_color>>
distVars == <<uploaded_zip, estilo_color, kml, dstatus, transformer, messages>>
viewerVars == <<user_zip, hashseed, session_state, widgets, frames, offered, vstatus>>
vars == <<centroidVars, colorVars, distVars, viewerVars>>

(***************************************************************************)
(* Bounds                                                                  *)
(***************************************************************************)
MaxVerts == 4
GridMax == 2
NumHexChars == 3
MaxRecs == 2
MaxRows == 2

(***************************************************************************)
(* Generic helpers                                                         *)
(***************************************************************************)
Abs(n) == IF n < 0 THEN -n ELSE n

RECURSIVE SeqsUpTo(_, _)
SeqsUpTo(S, n) ==
    IF n = 0 THEN {<<>>}
    ELSE LET shorter == SeqsUpTo(S, n - 1)
         IN  shorter \cup {Append(s, e) : s \in {t \in shorter : Len(t) = n - 1}, e \in S}

\* a float as an exact rational <<num, den>>, den # 0
RatEq(a, b) == a[1] * b[2] = b[1] * a[2]

(***************************************************************************)
(* app_kmz_distritos.py : polygon_centroid                                 *)
(***************************************************************************)
\* the loop of lines 46-52, run for i = 0 .. k-1; acc = <<area_factor, cx, cy>>
RECURSIVE centroid_loop(_, _)
centroid_loop(cs, k) ==
    IF k = 0 THEN <<0, 0, 0>>
    ELSE LET n     == Len(cs)
             acc   == centroid_loop(cs, k - 1)
             p0    == cs[k]
             p1    == cs[(k % n) + 1]
             cross == p0[1] * p1[2] - p1[1] * p0[2]
         IN  <<acc[1] + cross,
               acc[2] + (p0[1] + p1[1]) * cross,
               acc[3] + (p0[2] + p1[2]) * cross>>

RECURSIVE sum_coord(_, _, _)
sum_coord(cs, k, j) == IF k = 0 THEN 0 ELSE sum_coord(cs, k - 1, j) + cs[k][j]

\* the code reads the factor 6 * area with area = area_factor / 2, i.e. 3 * area_factor
polygon_centroid_abs(cs) ==
    LET n   == Len(cs)
        acc == centroid_loop(cs, n)
    IN  IF n = 0 THEN [x |-> <<0, 1>>, y |-> <<0, 1>>]
        ELSE IF acc[1] = 0
             THEN [x |-> <<sum_coord(cs, n, 1), n>>, y |-> <<sum_coord(cs, n, 2), n>>]
             ELSE [x |-> <<acc[2], 3 * Abs(acc[1])>>, y |-> <<acc[3], 3 * Abs(acc[1])>>]

\* abs(area) < 1e-9 : with integer vertices area is a multiple of 1/2, so the
\* test is true exactly when area_factor = 0
polygon_centroid(cs) ==
    LET n   == Len(cs)
        acc == centroid_loop(cs, n)
    IN  IF n = 0 THEN [x |-> <<0, 1>>, y |-> <<0, 1>>]
        ELSE IF acc[1] = 0
             THEN [x |-> <<sum_coord(cs, n, 1), n>>, y |-> <<sum_coord(cs, n, 2), n>>]
             ELSE [x |-> <<acc[2], 3 * acc[1]>>, y |-> <<acc[3], 3 * acc[1]>>]

\* vertices: x in 0..GridMax, y in 0..1
GridPoints == (0..GridMax) \X (0..1)
NoCentroid == [called |-> FALSE, x |-> <<0, 1>>, y |-> <<0, 1>>]

CentroidIdle == coords = <<>> /\ centroid = NoCentroid
ColorIdle == hex_rgb = <<>> /\ alpha = 0 /\ kml_color = <<>>

NoZip == [present |-> FALSE, shp |-> FALSE, prj |-> "missing", recs |-> <<>>]
NoKml == [made |-> FALSE, folders |-> <<>>]
TipoINE == "Tipo INE (un color por distrito)"
Aleatorio == "Aleatorio por seccion"

NoDoc == [set |-> FALSE, styles |-> <<>>, folders |-> <<>>]
NoHtml == [set |-> FALSE, features |-> <<>>, labels |-> <<>>]
EmptySession == [WS |-> [set |-> FALSE, shps |-> <<>>], sec_multi |-> {},
                 LAST_KMZ |-> NoDoc, LAST_MAP_HTML |-> NoHtml]
Todos == [all |-> TRUE, v |-> 0]
NoWidgets == [zip_file |-> FALSE, dl_sel |-> Todos, mun_sel |-> Todos,
              sec_selected |-> {}, preparar |-> FALSE]
NoOffer == [kmz |-> NoDoc, html |-> NoHtml]
ViewerIdle == /\ user_zip = <<>> /\ hashseed = 0 /\ session_state = EmptySession
              /\ widgets = NoWidgets /\ frames = <<>> /\ offered = NoOffer
              /\ vstatus = "init"

DistIdle == /\ uploaded_zip = NoZip /\ estilo_color = TipoINE /\ kml = NoKml
            /\ dstatus = "idle" /\ transformer = FALSE /\ messages = {}

InitCentroid ==
    /\ coords \in SeqsUpTo(GridPoints, MaxVerts)
    /\ centroid = NoCentroid
    /\ ColorIdle
    /\ DistIdle
    /\ ViewerIdle

CallPolygonCentroid ==
    /\ ~centroid.called
    /\ centroid' = [called |-> TRUE] @@ polygon_centroid(coords)
    /\ UNCHANGED <<coords, colorVars, distVars, viewerVars>>

NextCentroid == CallPolygonCentroid
SpecCentroid == InitCentroid /\ [][NextCentroid]_vars

(***************************************************************************)
(* C1                                                                      *)
(***************************************************************************)
\* shoelace sums written out independently of the code's loop
EdgeSet(cs) == 1..Len(cs)
NextIdx(cs, i) == IF i = Len(cs) THEN 1 ELSE i + 1
EdgeCross(cs, i) == cs[i][1] * cs[NextIdx(cs, i)][2] - cs[NextIdx(cs, i)][1] * cs[i][2]

RECURSIVE SumOver(_, _)
SumOver(f, S) == IF S = {} THEN 0
                 ELSE LET e == CHOOSE e \in S : TRUE IN f[e] + SumOver(f, S \ {e})

TwiceArea(cs) == SumOver([i \in EdgeSet(cs) |-> EdgeCross(cs, i)], EdgeSet(cs))
MomentX(cs) == SumOver([i \in EdgeSet(cs) |->
                   (cs[i][1] + cs[NextIdx(cs, i)][1]) * EdgeCross(cs, i)], EdgeSet(cs))
MomentY(cs) == SumOver([i \in EdgeSet(cs) |->
                   (cs[i][2] + cs[NextIdx(cs, i)][2]) * EdgeCross(cs, i)], EdgeSet(cs))

\* cs lists the four corners of an axis-aligned rectangle in ring order
\* (either orientation, any first vertex)
IsRectRing(cs) ==
    /\ Len(cs) = 4
    /\ Cardinality({cs[i] : i \in 1..4}) = 4
    /\ Cardinality({cs[i][1] : i \in 1..4}) = 2
    /\ Cardinality({cs[i][2] : i \in 1..4}) = 2
    /\ \A i \in 1..4 : \/ cs[i][1] = cs[NextIdx(cs, i)][1]
                       \/ cs[i][2] = cs[NextIdx(cs, i)][2]

\* C1: when the signed shoelace area A is not zero the result satisfies
\* 6*A*cx = sum (x_i + x_{i+1}) * cross_i and 6*A*cy = sum (y_i + y_{i+1}) * cross_i
\* (A = TwiceArea / 2, the ring closed from the last vertex to the first),
\* and for an axis-aligned rectangle, in either orientation and from any
\* first vertex, the result is the midpoint of its sides.
C1_CentroidFormula ==
    (centroid.called /\ TwiceArea(coords) # 0) =>
        /\ centroid.x[2] # 0 /\ centroid.y[2] # 0
        /\ 3 * TwiceArea(coords) * centroid.x[1] = MomentX(coords) * centroid.x[2]
        /\ 3 * TwiceArea(coords) * centroid.y[1] = MomentY(coords) * centroid.y[2]
        /\ IsRectRing(coords) =>
             LET xs == {coords[i][1] : i \in 1..4}
                 ys == {coords[i][2] : i \in 1..4}
                 x0 == CHOOSE v \in xs : \A w \in xs : v <= w
                 x1 == CHOOSE v \in xs : \A w \in xs : v >= w
                 y0 == CHOOSE v \in ys : \A w \in ys : v <= w
                 y1 == CHOOSE v \in ys : \A w \in ys : v >= w
             IN  /\ RatEq(centroid.x, <<x0 + x1, 2>>)
                 /\ RatEq(centroid.y, <<y0 + y1, 2>>)

\* a clockwise rectangle (negative signed area) not starting at its lowest corner
C1_Witness ==
    /\ centroid.called
    /\ IsRectRing(coords)
    /\ TwiceArea(coords) < 0
    /\ coords[1] # <<0, 0>>
    /\ RatEq(centroid.x, <<1, 1>>)
    /\ RatEq(centroid.y, <<1, 2>>)

(***************************************************************************)
(* app_viewer_kmz.py : kml_color_from_hex                                  *)
(***************************************************************************)
HexDigits == <<"0", "1", "2", "3", "4", "5", "6", "7", "8", "9",
               "a", "b", "c", "d", "e", "f">>

\* int(c, 16) for one character: upper and lower case digits are accepted
hex_digit_value(c) ==
    CASE c = "0" -> 0 [] c = "1" -> 1 [] c = "2" -> 2 [] c = "3" -> 3
      [] c = "4" -> 4 [] c = "5" -> 5 [] c = "6" -> 6 [] c = "7" -> 7
      [] c = "8" -> 8 [] c = "9" -> 9
      [] c \in {"a", "A"} -> 10 [] c \in {"b", "B"} -> 11 [] c \in {"c", "C"} -> 12
      [] c \in {"d", "D"} -> 13 [] c \in {"e", "E"} -> 14 [] c \in {"f", "F"} -> 15

\* int(s, 16) for a string of hex digits
RECURSIVE int16(_)
int16(s) == IF s = <<>> THEN 0
            ELSE 16 * int16(SubSeq(s, 1, Len(s) - 1)) + hex_digit_value(s[Len(s)])

\* format(n, "x") for n >= 0: lower-case digits, no padding
RECURSIVE fmt_x(_)
fmt_x(n) == IF n < 16 THEN <<HexDigits[n + 1]>>
            ELSE Append(fmt_x(n \div 16), HexDigits[(n % 16) + 1])

\* format(n, "02x"): zero-padded to a width of at least 2
fmt_02x(n) == IF n < 16 THEN <<"0">> \o fmt_x(n) ELSE fmt_x(n)

\* str.lstrip("#")
RECURSIVE lstrip_hash(_)
lstrip_hash(s) == IF s # <<>> /\ s[1] = "#" THEN lstrip_hash(Tail(s)) ELSE s

DefaultHex == <<"9", "9", "9", "9", "9", "9">>

kml_color_from_hex_rgba(hex, a) ==
    LET h0 == lstrip_hash(IF hex = <<>> THEN <<"#">> \o DefaultHex ELSE hex)
        h  == IF Len(h0) # 6 THEN DefaultHex ELSE h0
        rr == int16(SubSeq(h, 1, 2))
        gg == int16(SubSeq(h, 3, 4))
        bb == int16(SubSeq(h, 5, 6))
    IN  fmt_02x(rr) \o fmt_02x(gg) \o fmt_02x(bb) \o fmt_02x(a)

kml_color_from_hex(hex, a) ==
    LET h0 == lstrip_hash(IF hex = <<>> THEN <<"#">> \o DefaultHex ELSE hex)
        h  == IF Len(h0) # 6 THEN DefaultHex ELSE h0
        rr == int16(SubSeq(h, 1, 2))
        gg == int16(SubSeq(h, 3, 4))
        bb == int16(SubSeq(h, 5, 6))
    IN  fmt_02x(a) \o fmt_02x(bb) \o fmt_02x(gg) \o fmt_02x(rr)

\* the characters the inputs are built from, and the alpha values tried
HexSample == <<"0", "f", "A", "9", "c", "3">>
HexChars == {HexSample[i] : i \in 1..NumHexChars}
AlphaValues == {0, 9, 140, 255, 256}

SixDigits == {s \in SeqsUpTo(HexChars, 6) : Len(s) = 6}
HexInputs == {<<"#">> \o s : s \in SixDigits} \cup SixDigits
                 \cup {<<>>, <<"#", "f", "0", "0">>}

InitColor ==
    /\ hex_rgb \in HexInputs
    /\ alpha \in AlphaValues
    /\ kml_color = <<>>
    /\ CentroidIdle
    /\ DistIdle
    /\ ViewerIdle

CallKmlColorFromHex ==
    /\ kml_color = <<>>
    /\ kml_color' = kml_color_from_hex(hex_rgb, alpha)
    /\ UNCHANGED <<centroidVars, hex_rgb, alpha, distVars, viewerVars>>

NextColor == CallKmlColorFromHex
SpecColor == InitColor /\ [][NextColor]_vars

(***************************************************************************)
(* C2                                                                      *)
(***************************************************************************)
IsHashRRGGBB(s) == Len(s) = 7 /\ s[1] = "#"

\* C2: for a '#RRGGBB' argument and alpha in 0..255 the result has exactly 8
\* characters, all lower-case hex digits, and its byte pairs read back, in the
\* order AA BB GG RR, as alpha and the argument's blue, green and red bytes.
C2_KmlColorRoundTrip ==
    (kml_color # <<>> /\ IsHashRRGGBB(hex_rgb) /\ alpha \in 0..255) =>
        /\ Len(kml_color) = 8
        /\ \A i \in 1..8 : \E d \in 1..16 : kml_color[i] = HexDigits[d]
        /\ int16(SubSeq(kml_color, 1, 2)) = alpha
        /\ int16(SubSeq(kml_color, 3, 4)) = int16(SubSeq(hex_rgb, 6, 7))
        /\ int16(SubSeq(kml_color, 5, 6)) = int16(SubSeq(hex_rgb, 4, 5))
        /\ int16(SubSeq(kml_color, 7, 8)) = int16(SubSeq(hex_rgb, 2, 3))

\* '#0fA...' style input with distinct red and blue bytes and a one-digit alpha
C2_Witness ==
    /\ IsHashRRGGBB(hex_rgb)
    /\ alpha = 9
    /\ SubSeq(hex_rgb, 2, 7) = <<"0", "f", "A", "0", "f", "A">>
    /\ kml_color = <<"0", "9", "f", "a", "a", "0", "0", "f">>

(***************************************************************************)
(* app_kmz_distritos.py : the page script                                  *)
(***************************************************************************)
\* characters used in attribute values, in code point order
CharOrder == <<" ", ".", "0", "1", "2", "3", "4", "5", "6", "7", "8", "9", "A", "B">>
DecDigits == <<"0", "1", "2", "3", "4", "5", "6", "7", "8", "9">>
char_rank(c) == CHOOSE i \in 1..Len(CharOrder) : CharOrder[i] = c
is_digit(c) == \E i \in 1..10 : DecDigits[i] = c
digit_value(c) == (CHOOSE i \in 1..10 : DecDigits[i] = c) - 1

\* str.strip()
RECURSIVE py_strip(_)
py_strip(s) ==
    IF s = <<>> THEN s
    ELSE IF s[1] = " " THEN py_strip(Tail(s))
    ELSE IF s[Len(s)] = " " THEN py_strip(SubSeq(s, 1, Len(s) - 1))
    ELSE s

RECURSIVE dec_value(_)
dec_value(s) == IF s = <<>> THEN 0
                ELSE 10 * dec_value(SubSeq(s, 1, Len(s) - 1)) + digit_value(s[Len(s)])

\* format(n, "d") and format(n, "02d") for n >= 0
RECURSIVE fmt_d(_)
fmt_d(n) == IF n < 10 THEN <<DecDigits[n + 1]>>
            ELSE Append(fmt_d(n \div 10), DecDigits[(n % 10) + 1])
fmt_02d(n) == IF n < 10 THEN <<"0">> \o fmt_d(n) ELSE fmt_d(n)

\* try: int(str(raw).strip())  except: raw          (lines 169-178)
\* an attribute value is the record [int, n, s]: the int n, or the text s
py_int_or_raw(raw) ==
    LET t == py_strip(raw)
    IN  IF t # <<>> /\ \A i \in 1..Len(t) : is_digit(t[i])
        THEN [int |-> TRUE, n |-> dec_value(t), s |-> <<>>]
        ELSE [int |-> FALSE, n |-> 0, s |-> raw]

\* str < str
RECURSIVE str_lt(_, _)
str_lt(a, b) ==
    IF b = <<>> THEN FALSE
    ELSE IF a = <<>> THEN TRUE
    ELSE IF a[1] = b[1] THEN str_lt(Tail(a), Tail(b))
    ELSE char_rank(a[1]) < char_rank(b[1])

\* a < b for two values of the same type
py_lt(a, b) == IF a.int THEN a.n < b.n ELSE str_lt(a.s, b.s)

\* comparing an int with a str raises TypeError: sorted() of a list holding both
mixed_types(ks) == \E i, j \in 1..Len(ks) : ks[i].int # ks[j].int

\* sorted(seq, key=lambda x: x[0]) on records with key field k (stable)
insert_by_key(srt, x) ==
    LET i == Cardinality({j \in 1..Len(srt) : ~py_lt(x.k, srt[j].k)})
    IN  SubSeq(srt, 1, i) \o <<x>> \o SubSeq(srt, i + 1, Len(srt))

RECURSIVE py_sorted(_)
py_sorted(seq) ==
    IF seq = <<>> THEN <<>>
    ELSE insert_by_key(py_sorted(SubSeq(seq, 1, Len(seq) - 1)), seq[Len(seq)])

\* registros_por_distrito: keys in insertion order, and the list of one key
RECURSIVE dict_keys(_)
dict_keys(cv) ==
    IF cv = <<>> THEN <<>>
    ELSE LET front == dict_keys(SubSeq(cv, 1, Len(cv) - 1))
             d     == cv[Len(cv)].dist
         IN  IF \E i \in 1..Len(front) : front[i] = d THEN front ELSE Append(front, d)

RECURSIVE lista_of(_, _)
lista_of(cv, d) ==
    IF cv = <<>> THEN <<>>
    ELSE LET front == lista_of(SubSeq(cv, 1, Len(cv) - 1), d)
             r     == cv[Len(cv)]
         IN  IF r.dist = d THEN Append(front, [k |-> r.sec, pts |-> r.pts, idx |-> r.idx])
             ELSE front

paleta_distritos == <<
    <<166, 219, 160>>, <<199, 233, 192>>, <<161, 217, 155>>, <<116, 196, 118>>,
    <<65, 171, 93>>, <<35, 139, 69>>, <<0, 109, 44>>, <<0, 90, 50>> >>

RandLo == 80
RandHi == 255
FillAlpha == 150

\* simplekml.Color.rgb(r, g, b, a): the KML string aabbggrr
simplekml_rgb(r, g, b, a) == fmt_02x(a) \o fmt_02x(b) \o fmt_02x(g) \o fmt_02x(r)

\* Transformer.transform of pyproj, as some map that is not the identity
transform(p) == <<2 * p[1] + 1, p[2] + 2>>

\* a transformer built from any .prj that exists
transformer_set_exists(zip) == zip.prj # "missing"

\* transformer is set only when the .prj exists and CRS.from_wkt accepts it
transformer_set(zip) == zip.prj = "ok"

RECURSIVE transform_all(_, _)
transform_all(pts, tr) ==
    IF pts = <<>> THEN <<>>
    ELSE Append(transform_all(SubSeq(pts, 1, Len(pts) - 1), tr),
                IF tr THEN transform(pts[Len(pts)]) ELSE pts[Len(pts)])

etiqueta_of(sec) == IF sec.int THEN fmt_d(sec.n) ELSE sec.s

\* body of the section loop for one record (lines 213-262): the polygon and
\* its label, or nothing for a shape without points
section_items_rawpts(e, tr, rgb) ==
    IF e.pts = <<>> THEN <<>>
    ELSE LET cs == transform_all(e.pts, tr)
             c  == polygon_centroid(e.pts)
         IN  << [kind |-> "polygon", name |-> etiqueta_of(e.k), sec |-> e.k,
                 outer |-> cs, at |-> <<c.x, c.y>>,
                 color |-> simplekml_rgb(rgb[1], rgb[2], rgb[3], FillAlpha)],
                [kind |-> "point", name |-> etiqueta_of(e.k), sec |-> e.k,
                 outer |-> <<>>, at |-> <<c.x, c.y>>, color |-> <<>>] >>

section_items(e, tr, rgb) ==
    IF e.pts = <<>> THEN <<>>
    ELSE LET cs == transform_all(e.pts, tr)
             c  == polygon_centroid(cs)
         IN  << [kind |-> "polygon", name |-> etiqueta_of(e.k), sec |-> e.k,
                 outer |-> cs, at |-> <<c.x, c.y>>,
                 color |-> simplekml_rgb(rgb[1], rgb[2], rgb[3], FillAlpha)],
                [kind |-> "point", name |-> etiqueta_of(e.k), sec |-> e.k,
                 outer |-> <<>>, at |-> <<c.x, c.y>>, color |-> <<>>] >>

RECURSIVE folder_items(_, _, _, _, _)
folder_items(lista, tr, estilo, district_rgb, rnd) ==
    IF lista = <<>> THEN <<>>
    ELSE LET e == lista[Len(lista)]
             rgb == IF estilo = TipoINE THEN district_rgb ELSE rnd[e.idx]
         IN  folder_items(SubSeq(lista, 1, Len(lista) - 1), tr, estilo, district_rgb, rnd)
                 \o section_items(e, tr, rgb)

\* the records as read by the loop of lines 164-182
converted(recs) ==
    [i \in 1..Len(recs) |-> [dist |-> py_int_or_raw(recs[i].dist),
                             sec  |-> py_int_or_raw(recs[i].sec),
                             pts  |-> recs[i].pts, idx |-> i]]

\* the button handler raises (TypeError from sorted, ValueError from the
\* format spec 02d applied to a str) and no KMZ is produced
generation_raises(recs) ==
    LET cv   == converted(recs)
        keys == dict_keys(cv)
    IN  \/ mixed_types(keys)
        \/ \E i \in 1..Len(keys) : ~keys[i].int
        \/ \E i \in 1..Len(keys) :
               LET l == lista_of(cv, keys[i])
               IN  mixed_types([j \in 1..Len(l) |-> l[j].k])

\* lines 200-262: the folders of the KML document
kml_folders(zip, estilo, rnd) ==
    LET cv   == converted(zip.recs)
        keys == dict_keys(cv)
        srt  == py_sorted([i \in 1..Len(keys) |-> [k |-> keys[i]]])
    IN  [i \in 1..Len(srt) |->
            [name  |-> <<"Distrito ">> \o fmt_02d(srt[i].k.n),
             dist  |-> srt[i].k,
             items |-> folder_items(py_sorted(lista_of(cv, srt[i].k)),
                                    transformer_set(zip), estilo,
                                    paleta_distritos[((i - 1) % Len(paleta_distritos)) + 1],
                                    rnd)]]

\* the values the inputs are drawn from
DistRaw == {<<"2">>, <<"1", "0">>, <<"A">>}
SecRaw == {<<"9">>, <<" ", "1", "0">>, <<"B">>}
PointSets == {<<>>, << <<0, 0>>, <<2, 0>>, <<0, 1>>, <<0, 0>> >>}
RecUniverse == [dist : DistRaw, sec : SecRaw, pts : PointSets]
PrjStates == {"missing", "bad", "ok"}
Zips == [present : {TRUE}, shp : {TRUE}, prj : PrjStates,
         recs : SeqsUpTo(RecUniverse, MaxRecs)]
          \cup {[present |-> TRUE, shp |-> FALSE, prj |-> "missing", recs |-> <<>>]}
RandTriples == {<<RandLo, RandLo, RandLo>>, <<RandHi, RandLo, 200>>}

\* status of a rerun that does not run the button handler
rerun_status(zip) == IF ~zip.present THEN "idle"
                     ELSE IF ~zip.shp THEN "no_shp" ELSE "ready"

\* the message of the .prj step (lines 105-128): st.success when the
\* transformer was built, st.warning from the except branch, st.warning from
\* the else branch
prj_messages(zip) ==
    IF zip.prj = "missing" THEN {"warning_prj_missing"}
    ELSE IF transformer_set(zip) THEN {"success_prj"} ELSE {"warning_prj_bad"}

\* what every run of the script shows before it reaches the button
rerun_messages(zip) ==
    IF ~zip.present THEN {}
    ELSE IF ~zip.shp THEN {"error_no_shp"}
    ELSE prj_messages(zip) \cup {"info_campos"}

\* the local variable transformer at the end of the run: None unless the
\* .prj step was reached and built one
rerun_transformer(zip) == zip.present /\ zip.shp /\ transformer_set(zip)

InitDist ==
    /\ DistIdle
    /\ CentroidIdle
    /\ ColorIdle
    /\ ViewerIdle

\* the user puts a ZIP into the file uploader; the script reruns
UploadZip ==
    /\ ~uploaded_zip.present
    /\ \E zip \in Zips :
         /\ uploaded_zip' = zip
         /\ dstatus' = rerun_status(zip)
         /\ transformer' = rerun_transformer(zip)
         /\ messages' = rerun_messages(zip)
    /\ kml' = NoKml
    /\ UNCHANGED <<estilo_color, centroidVars, colorVars, viewerVars>>

\* the user removes the file; the script reruns
RemoveZip ==
    /\ uploaded_zip.present
    /\ uploaded_zip' = NoZip
    /\ dstatus' = "idle"
    /\ transformer' = FALSE
    /\ messages' = {}
    /\ kml' = NoKml
    /\ UNCHANGED <<estilo_color, centroidVars, colorVars, viewerVars>>

\* the user picks the other radio option; the script reruns, button not pressed
SelectEstilo ==
    /\ estilo_color' = IF estilo_color = TipoINE THEN Aleatorio ELSE TipoINE
    /\ dstatus' = rerun_status(uploaded_zip)
    /\ transformer' = rerun_transformer(uploaded_zip)
    /\ messages' = rerun_messages(uploaded_zip)
    /\ kml' = NoKml
    /\ UNCHANGED <<uploaded_zip, centroidVars, colorVars, viewerVars>>

\* "Generar KMZ por distrito y seccion" pressed: the script reruns with the
\* button true
PressGenerar ==
    /\ uploaded_zip.present /\ uploaded_zip.shp
    /\ transformer' = rerun_transformer(uploaded_zip)
    /\ IF generation_raises(uploaded_zip.recs)
       THEN /\ kml' = NoKml /\ dstatus' = "error"
            /\ messages' = rerun_messages(uploaded_zip) \cup {"exception"}
       ELSE /\ dstatus' = "done"
            /\ messages' = rerun_messages(uploaded_zip) \cup {"success_kmz"}
            /\ IF estilo_color = TipoINE
               THEN kml' = [made |-> TRUE,
                            folders |-> kml_folders(uploaded_zip, estilo_color, <<>>)]
               ELSE \E rnd \in [1..Len(uploaded_zip.recs) -> RandTriples] :
                      kml' = [made |-> TRUE,
                              folders |-> kml_folders(uploaded_zip, estilo_color, rnd)]
    /\ UNCHANGED <<uploaded_zip, estilo_color, centroidVars, colorVars, viewerVars>>

NextDist == UploadZip \/ RemoveZip \/ SelectEstilo \/ PressGenerar
SpecDist == InitDist /\ [][NextDist]_vars

(***************************************************************************)
(* C3, C4, C5                                                              *)
(***************************************************************************)
GenerarPressed == dstatus \in {"done", "error"}
DistrictValues == {py_int_or_raw(uploaded_zip.recs[i].dist) : i \in 1..Len(uploaded_zip.recs)}
PolygonIdx(items) == {i \in 1..Len(items) : items[i].kind = "polygon"}
PointIdx(items) == {i \in 1..Len(items) : items[i].kind = "point"}

\* C3: whatever the records (any file order, numeric or text district and
\* section values), pressing the button yields a KMZ with one folder per
\* district, the folders in ascending district order and, inside each
\* folder, the section polygons in ascending section order.
C3_FoldersAndSectionsSorted ==
    GenerarPressed =>
        /\ kml.made
        /\ Len(kml.folders) = Cardinality(DistrictValues)
        /\ \A i \in 1..Len(kml.folders) : kml.folders[i].dist \in DistrictValues
        /\ \A i, j \in 1..Len(kml.folders) :
               i < j => py_lt(kml.folders[i].dist, kml.folders[j].dist)
        /\ \A f \in 1..Len(kml.folders) :
               LET items == kml.folders[f].items
               IN  \A i, j \in PolygonIdx(items) :
                       i < j => ~py_lt(items[j].sec, items[i].sec)

AllPolygons == {<<f, i>> \in (1..Len(kml.folders)) \X (1..(2 * MaxRecs + 2)) :
                   i <= Len(kml.folders[f].items)
                   /\ kml.folders[f].items[i].kind = "polygon"}

\* C4: in mode Tipo INE every polygon of the folder of rank i (from 0) is
\* filled with palette entry i mod 8; in mode Aleatorio no two section
\* polygons have the same fill colour.
C4_DistrictColourAndDistinctRandom ==
    kml.made =>
        IF estilo_color = TipoINE
        THEN \A p \in AllPolygons :
               LET rgb == paleta_distritos[((p[1] - 1) % 8) + 1]
               IN  kml.folders[p[1]].items[p[2]].color
                       = simplekml_rgb(rgb[1], rgb[2], rgb[3], FillAlpha)
        ELSE \A p, q \in AllPolygons :
               p # q => kml.folders[p[1]].items[p[2]].color
                            # kml.folders[q[1]].items[q[2]].color

RecordsWithPoints(d) ==
    {i \in 1..Len(uploaded_zip.recs) :
        /\ py_int_or_raw(uploaded_zip.recs[i].dist) = d
        /\ uploaded_zip.recs[i].pts # <<>>}

\* C5: in every folder the label points correspond one to one to the
\* polygons: as many points as polygons carry a given name at a given place,
\* that place being polygon_centroid of the polygon's coordinates; and the
\* folder holds one polygon and one label per record of the district that has
\* points, nothing for a record without points.
C5_OneLabelPerPolygon ==
    kml.made =>
        \A f \in 1..Len(kml.folders) :
            LET items == kml.folders[f].items
                cen(i) == LET c == polygon_centroid(items[i].outer) IN <<c.x, c.y>>
            IN  /\ \A i \in PolygonIdx(items) :
                       /\ items[i].outer # <<>>
                       /\ Cardinality({j \in PointIdx(items) :
                              items[j].name = items[i].name /\ items[j].at = cen(i)})
                          = Cardinality({j \in PolygonIdx(items) :
                              items[j].name = items[i].name /\ cen(j) = cen(i)})
                /\ Cardinality(PolygonIdx(items)) = Cardinality(RecordsWithPoints(kml.folders[f].dist))
                /\ Cardinality(PointIdx(items)) = Cardinality(RecordsWithPoints(kml.folders[f].dist))

\* a district with one shape with points and one without, coordinates
\* transformed: the folder holds exactly the polygon and its label
C5_Witness ==
    /\ kml.made
    /\ transformer_set(uploaded_zip)
    /\ Len(uploaded_zip.recs) = 2
    /\ Len(kml.folders) = 1
    /\ \E i \in 1..2 : uploaded_zip.recs[i].pts = <<>>
    /\ Len(kml.folders[1].items) = 2
    /\ kml.folders[1].items[1].kind = "polygon"
    /\ kml.folders[1].items[2].kind = "point"
    /\ kml.folders[1].items[2].name = <<"1", "0">>
    /\ RatEq(kml.folders[1].items[2].at[1], <<7, 3>>)
    /\ RatEq(kml.folders[1].items[2].at[2], <<7, 3>>)

(***************************************************************************)
(* C11                                                                     *)
(***************************************************************************)
ShapefileRead == uploaded_zip.present /\ uploaded_zip.shp
PrjWarnings == {"warning_prj_missing", "warning_prj_bad"}

\* the point lists of the records of district d and section k, as in the file
RecPts(d, k) ==
    {uploaded_zip.recs[i].pts : i \in {j \in 1..Len(uploaded_zip.recs) :
        /\ py_int_or_raw(uploaded_zip.recs[j].dist) = d
        /\ py_int_or_raw(uploaded_zip.recs[j].sec) = k}}

ToWGS84(pts) == [j \in 1..Len(pts) |-> transform(pts[j])]

\* every record's district and section text is a number
AllNumeric ==
    \A i \in 1..Len(uploaded_zip.recs) :
        /\ py_int_or_raw(uploaded_zip.recs[i].dist).int
        /\ py_int_or_raw(uploaded_zip.recs[i].sec).int

IntVal(n) == [t |-> "int", n |-> n, s |-> <<>>]
FloatVal(n) == [t |-> "float", n |-> n, s |-> <<>>]
NanVal == [t |-> "nan", n |-> 0, s |-> <<>>]
StrVal(s) == [t |-> "str", n |-> 0, s |-> s]

\* str(value)
py_str(val) ==
    CASE val.t = "int"   -> fmt_d(val.n)
      [] val.t = "float" -> fmt_d(val.n) \o <<".", "0">>
      [] val.t = "nan"   -> <<"n", "a", "n">>
      [] OTHER           -> val.s

\* int(value): [ok, v]; ok = FALSE stands for the exception (ValueError)
py_int(val) ==
    CASE val.t = "int"   -> [ok |-> TRUE, v |-> val.n]
      [] val.t = "float" -> [ok |-> TRUE, v |-> val.n]
      [] val.t = "nan"   -> [ok |-> FALSE, v |-> 0]
      [] OTHER           ->
           LET t == py_strip(val.s)
           IN  IF t # <<>> /\ \A i \in 1..Len(t) : is_digit(t[i])
               THEN [ok |-> TRUE, v |-> dec_value(t)]
               ELSE [ok |-> FALSE, v |-> 0]

\* hash(str): keyed by the per-process random seed (PYTHONHASHSEED); the
\* arithmetic stands for SipHash, the sign can be negative
CharCodes == <<" ", ".", "0", "1", "2", "3", "4", "5", "6", "7", "8", "9",
               "A", "B", "a", "n">>
char_code(c) == CHOOSE i \in 1..Len(CharCodes) : CharCodes[i] = c
RECURSIVE str_code(_)
str_code(s) == IF s = <<>> THEN 7
               ELSE (31 * str_code(SubSeq(s, 1, Len(s) - 1)) + char_code(s[Len(s)])) % 65521
py_hash(s, seed) == (((str_code(s) + 1) * (2 * seed + 1)) % 100003) - 50000

\* round(num / den) for num >= 0, den > 0: ties go to the even integer
py_round(num, den) ==
    LET q == num \div den
        r == num % den
    IN  IF 2 * r > den \/ (2 * r = den /\ q % 2 = 1) THEN q + 1 ELSE q

\* _hsl_to_rgb(h, s, l) for an integer hue h in 0..359 and s, l given in
\* hundredths; every quantity is kept over the common denominator 1200000
HslDen == 1200000
hsl_to_rgb(h, s100, l100) ==
    LET cc == (100 - Abs(2 * l100 - 100)) * s100          \* c * 10000
        k  == 60 - Abs((h % 120) - 60)                    \* 60 * (1 - |hp % 2 - 1|)
        c  == cc * 120
        x  == cc * 2 * k
        m  == (200 * l100 - cc) * 60
        sx == h \div 60
        r1 == CASE sx = 0 -> c [] sx = 1 -> x [] sx = 2 -> 0
                [] sx = 3 -> 0 [] sx = 4 -> x [] OTHER -> c
        g1 == CASE sx = 0 -> x [] sx = 1 -> c [] sx = 2 -> c
                [] sx = 3 -> x [] sx = 4 -> 0 [] OTHER -> 0
        b1 == CASE sx = 0 -> 0 [] sx = 1 -> 0 [] sx = 2 -> x
                [] sx = 3 -> c [] sx = 4 -> c [] OTHER -> x
    IN  <<py_round((r1 + m) * 255, HslDen),
          py_round((g1 + m) * 255, HslDen),
          py_round((b1 + m) * 255, HslDen)>>

HashMod == 100000
HueStep == 47
Saturation == 65
Lightness == 55

\* color_for_section(section_value) in a process whose hash seed is seed
color_for_section(val, seed) ==
    LET p   == py_int(val)
        v   == IF p.ok THEN p.v ELSE Abs(py_hash(py_str(val), seed)) % HashMod
        h   == (v * HueStep) % 360
        rgb == hsl_to_rgb(h, Saturation, Lightness)
    IN  <<"#">> \o fmt_02x(rgb[1]) \o fmt_02x(rgb[2]) \o fmt_02x(rgb[3])

(***************************************************************************)
(* app_viewer_kmz.py : KML helpers                                         *)
(***************************************************************************)
\* a shapely geometry: [gt, ext, holes, geoms]
Polygon(ext, holes) == [gt |-> "Polygon", ext |-> ext, holes |-> holes, geoms |-> <<>>]
PointGeom == [gt |-> "Point", ext |-> <<>>, holes |-> <<>>, geoms |-> <<>>]
Multi(gt, geoms) == [gt |-> gt, ext |-> <<>>, holes |-> <<>>, geoms |-> geoms]

\* style_id_for: "S_" + the value with every run of other characters
\* replaced by "_" (the values here hold single dots)
style_id_for(v) ==
    <<"S_">> \o [i \in 1..Len(v) |-> IF v[i] \in {".", " "} THEN "_" ELSE v[i]]

RECURSIVE flatten(_)
flatten(ss) == IF ss = <<>> THEN <<>> ELSE ss[1] \o flatten(Tail(ss))

RECURSIVE iter_polygons(_)
iter_polygons(geom) ==
    CASE geom.gt = "Polygon"            -> <<geom>>
      [] geom.gt = "MultiPolygon"       -> geom.geoms
      [] geom.gt = "GeometryCollection" ->
           flatten([i \in 1..Len(geom.geoms) |-> iter_polygons(geom.geoms[i])])
      [] OTHER                          -> <<>>

\* the coordinates text: one "x,y,0" triple per vertex
ring_to_kml_coords(ring) == [i \in 1..Len(ring) |-> <<ring[i][1], ring[i][2], 0>>]

polygon_to_kml(poly) ==
    [outer  |-> ring_to_kml_coords(poly.ext),
     inners |-> [i \in 1..Len(poly.holes) |-> ring_to_kml_coords(poly.holes[i])]]

\* geom_to_kml: none stands for the empty string
geom_to_kml(geom) ==
    LET polys == iter_polygons(geom)
    IN  [none  |-> polys = <<>>,
         multi |-> Len(polys) > 1,
         polys |-> [i \in 1..Len(polys) |-> polygon_to_kml(polys[i])]]

(***************************************************************************)
(* app_viewer_kmz.py : the layer and its filters                           *)
(***************************************************************************)
\* a row of the section layer: [dl, mun, sec, geom], sec = [null, n]
\* a frame (GeoDataFrame view) is the sequence of the row numbers it keeps
Sec(n) == [null |-> FALSE, n |-> n]
NullSec == [null |-> TRUE, n |-> 0]

\* the column is float64 as soon as one of its values is missing
col_is_float(layer) == \E i \in 1..Len(layer) : layer[i].sec.null
sec_value(layer, i) ==
    IF layer[i].sec.null THEN NanVal
    ELSE IF col_is_float(layer) THEN FloatVal(layer[i].sec.n)
    ELSE IntVal(layer[i].sec.n)

SeqRange(q) == {q[i] : i \in 1..Len(q)}

\* secc_f[secc_f[col].astype(int) == int(sel)] unless sel is "(todos)"
filter_eq(layer, frame, col, sel) ==
    IF sel.all THEN frame
    ELSE SelectSeq(frame, LAMBDA i : layer[i][col] = sel.v)

\* options of a selectbox: "(todos)" and the values left in the frame
select_options(layer, frame, col) ==
    {Todos} \cup {[all |-> FALSE, v |-> layer[i][col]] : i \in SeqRange(frame)}

\* secs: the section numbers left in the frame (line 541)
secs_of(layer, frame) ==
    {layer[i].sec.n : i \in {j \in SeqRange(frame) : ~layer[j].sec.null}}

\* line 559 raises when the frame still holds a missing section number
sec_filter_raises(layer, frame, sel) ==
    sel # {} /\ \E i \in SeqRange(frame) : layer[i].sec.null

filter_sec_options(layer, frame, sel) ==
    SelectSeq(frame, LAMBDA i : layer[i].sec.n \in secs_of(layer, frame))

filter_sec(layer, frame, sel) ==
    IF sel = {} THEN frame
    ELSE SelectSeq(frame, LAMBDA i : layer[i].sec.n \in sel)

(***************************************************************************)
(* app_viewer_kmz.py : map and KML document                                *)
(***************************************************************************)
\* style_fn: a missing section number falls back to props.get("id", 0)
map_html(layer, frame, seed) ==
    [set      |-> TRUE,
     features |-> [k \in 1..Len(frame) |->
                     LET val == sec_value(layer, frame[k])
                     IN  [row |-> frame[k],
                          fillColor |-> color_for_section(
                              IF val.t = "nan" THEN IntVal(0) ELSE val, seed)]],
     labels   |-> [k \in 1..Len(frame) |-> py_str(sec_value(layer, frame[k]))]]

AlphaDefault == 140

\* the distinct strings of a column as a list of sort keys
RECURSIVE str_keys(_)
str_keys(S) == IF S = {} THEN <<>>
               ELSE LET e == CHOOSE e \in S : TRUE
                    IN  <<[k |-> [int |-> FALSE, n |-> 0, s |-> e]]>> \o str_keys(S \ {e})

\* build_section_styles: one style per distinct str(section), sorted
build_section_styles(layer, frame, seed) ==
    LET strs   == {py_str(sec_value(layer, i)) :
                      i \in {j \in SeqRange(frame) : ~layer[j].sec.null}}
        values == py_sorted(str_keys(strs))
    IN  [i \in 1..Len(values) |->
            [value |-> values[i].k.s,
             id    |-> style_id_for(values[i].k.s),
             poly  |-> kml_color_from_hex(
                           color_for_section(StrVal(values[i].k.s), seed), AlphaDefault),
             line  |-> <<"f", "f", "0", "0", "0", "0", "0", "0">>]]

\* gdf_to_kml_folder for the section layer (max_features = len, no sampling)
gdf_to_kml_folder(layer, frame, folder_name, styles) ==
    LET kept == SelectSeq(frame, LAMBDA i : ~geom_to_kml(layer[i].geom).none)
    IN  [name |-> folder_name,
         placemarks |-> [k \in 1..Len(kept) |->
            LET val == sec_value(layer, kept[k])
                key == py_str(val)
            IN  [name      |-> key,
                 style_url |-> IF val.t # "nan"
                                  /\ \E j \in 1..Len(styles) : styles[j].value = key
                               THEN <<"#">> \o style_id_for(key) ELSE <<>>,
                 kml_geom  |-> geom_to_kml(layer[kept[k]].geom)]]]

\* build_kml_document with mza_gdf = None, then kml_to_kmz_bytes: doc.kml
build_kmz(layer, frame, seed) ==
    LET styles == build_section_styles(layer, frame, seed)
    IN  [set     |-> TRUE,
         styles  |-> styles,
         folders |-> <<gdf_to_kml_folder(layer, frame, "SECCIONES", styles)>>]

(***************************************************************************)
(* app_viewer_kmz.py : the page script                                     *)
(***************************************************************************)
Square == << <<0, 0>>, <<1, 0>>, <<1, 1>>, <<0, 1>>, <<0, 0>> >>
Square2 == << <<2, 0>>, <<3, 0>>, <<3, 1>>, <<2, 1>>, <<2, 0>> >>
Hole == << <<4, 4>>, <<5, 4>>, <<5, 5>>, <<4, 4>> >>
EmptyPolygon == Polygon(<<>>, <<>>)

\* the rows the section layers are built from; a layer holds some of them,
\* at most MaxRows, in this order
SampleRows == <<
    [dl |-> 1, mun |-> 1, sec |-> Sec(1),   geom |-> Polygon(Square, <<>>)],
    [dl |-> 1, mun |-> 2, sec |-> Sec(361), geom |-> Multi("MultiPolygon",
                                  <<Polygon(Square, <<>>), Polygon(Square2, <<Hole>>)>>)],
    [dl |-> 2, mun |-> 1, sec |-> Sec(2),   geom |-> EmptyPolygon],
    [dl |-> 1, mun |-> 1, sec |-> NullSec,  geom |-> Multi("GeometryCollection",
                                  <<PointGeom, EmptyPolygon, Polygon(Square2, <<>>)>>)],
    [dl |-> 2, mun |-> 2, sec |-> Sec(361), geom |-> PointGeom] >>
Layers == {SelectSeq(SampleRows, LAMBDA r : r \in R) :
              R \in {T \in SUBSET SeqRange(SampleRows) : Cardinality(T) <= MaxRows}}
HashSeeds == {0, 1}

InitViewer ==
    /\ user_zip \in Layers
    /\ hashseed \in HashSeeds
    /\ session_state = EmptySession
    /\ widgets = NoWidgets
    /\ frames = <<>>
    /\ offered = NoOffer
    /\ vstatus = "init"
    /\ CentroidIdle
    /\ ColorIdle
    /\ DistIdle

\* prepare_workspace: the extracted workspace is cached under WS_ONEZIP
prepare_workspace_fresh(ss, zip) ==
    [EmptySession EXCEPT !.WS = [set |-> TRUE, shps |-> zip]]

prepare_workspace(ss, zip) ==
    [ss EXCEPT !.WS = [set |-> TRUE, shps |-> zip]]

\* one run of the script, top to bottom.  Its inputs are the widget values:
\* the uploader, the two selectboxes, the multiselect (the buttons
\* "Seleccionar todas" and "Limpiar" put secs or [] into it) and "Preparar KMZ".
RunScript ==
    /\ UNCHANGED <<centroidVars, colorVars, distVars>>
    /\ \E zf \in BOOLEAN :
      IF ~zf
      THEN /\ widgets' = NoWidgets
           /\ frames' = <<>>
           /\ offered' = NoOffer
           /\ vstatus' = "no_zip"
           /\ UNCHANGED <<user_zip, hashseed, session_state>>
      ELSE LET layer == user_zip
               secc  == [i \in 1..Len(layer) |-> i]
           IN
           \E dl \in select_options(layer, secc, "dl") :
           LET f1 == filter_eq(layer, secc, "dl", dl) IN
           \E mun \in select_options(layer, f1, "mun") :
           LET f2 == filter_eq(layer, f1, "mun", mun) IN
           \E sel \in SUBSET secs_of(layer, f2) :
           \E prep \in BOOLEAN :
           LET ss1 == [prepare_workspace(session_state, layer) EXCEPT !.sec_multi = sel]
               f3  == filter_sec(layer, f2, sel)
               ss2 == [ss1 EXCEPT !.LAST_MAP_HTML = map_html(layer, f3, hashseed)]
               ss3 == IF prep
                      THEN [ss2 EXCEPT !.LAST_KMZ = build_kmz(layer, f3, hashseed)]
                      ELSE ss2
           IN
           /\ widgets' = [zip_file |-> TRUE, dl_sel |-> dl, mun_sel |-> mun,
                          sec_selected |-> sel, preparar |-> prep]
           /\ IF sec_filter_raises(layer, f2, sel)
              THEN /\ vstatus' = "error"
                   /\ frames' = <<secc, f1, f2>>
                   /\ session_state' = ss1
                   /\ offered' = NoOffer
              ELSE IF f3 = <<>>
              THEN /\ vstatus' = "empty"
                   /\ frames' = <<secc, f1, f2, f3>>
                   /\ session_state' = ss1
                   /\ offered' = NoOffer
              ELSE /\ vstatus' = "done"
                   /\ frames' = <<secc, f1, f2, f3>>
                   /\ session_state' = ss3
                   /\ offered' = [kmz  |-> session_state'.LAST_KMZ,
                                  html |-> session_state'.LAST_MAP_HTML]
           /\ UNCHANGED <<user_zip, hashseed>>

\* the browser page is reloaded: a new session with an empty session_state
NewSession ==
    /\ vstatus # "init"
    /\ session_state' = EmptySession
    /\ widgets' = NoWidgets
    /\ frames' = <<>>
    /\ offered' = NoOffer
    /\ vstatus' = "init"
    /\ UNCHANGED <<user_zip, hashseed, centroidVars, colorVars, distVars>>

\* the server process is started again: str hashes are keyed anew
RestartProcess ==
    /\ \E seed \in HashSeeds \ {hashseed} : hashseed' = seed
    /\ session_state' = EmptySession
    /\ widgets' = NoWidgets
    /\ frames' = <<>>
    /\ offered' = NoOffer
    /\ vstatus' = "init"
    /\ UNCHANGED <<user_zip, centroidVars, colorVars, distVars>>

NextViewer == RunScript \/ NewSession \/ RestartProcess
SpecViewer == InitViewer /\ [][NextViewer]_vars

(***************************************************************************)
(* C6, C7                                                                  *)
(***************************************************************************)
\* values a section can reach color_for_section as: integers, whole floats,
\* and the texts str() makes of a float column ("1.0")
SectionValues == {IntVal(1), IntVal(361), FloatVal(2), StrVal(<<"2">>),
                  StrVal(<<"1", ".", "0">>), StrVal(<<"3", "6", "1", ".", "0">>)}

\* C6: a section value has one colour, in every call and in every run of the
\* program: no step, a restart of the server process included, changes the
\* colour color_for_section gives to a value.
C6_ColourDeterministic ==
    [][\A val \in SectionValues :
          color_for_section(val, hashseed') = color_for_section(val, hashseed)]_vars

\* C7: two sections with different numbers never share a fill colour, on the
\* map and in the styles of the exported KMZ.
C7_DistinctColours ==
    vstatus = "done" =>
        /\ \A i, j \in 1..Len(offered.html.features) :
              LET a == offered.html.features[i]
                  b == offered.html.features[j]
              IN  (/\ ~user_zip[a.row].sec.null /\ ~user_zip[b.row].sec.null
                   /\ user_zip[a.row].sec.n # user_zip[b.row].sec.n)
                      => a.fillColor # b.fillColor
        /\ \A i, j \in 1..Len(offered.kmz.styles) :
              i # j => offered.kmz.styles[i].poly # offered.kmz.styles[j].poly

(***************************************************************************)
(* C8                                                                      *)
(***************************************************************************)
\* C8 as stated: what a run offers for download is computed in that run:
\* the map HTML and, when a KMZ is offered, the KMZ are the ones built from
\* this run's ZIP and filtered layer.
C8_NothingCarriedOver ==
    vstatus = "done" =>
        /\ offered.html = map_html(user_zip, frames[4], hashseed)
        /\ offered.kmz.set => offered.kmz = build_kmz(user_zip, frames[4], hashseed)

\* C8 amended: the map HTML offered by a run is the one built from that run's
\* ZIP and filtered layer; the KMZ is the one built in this run when
\* "Preparar KMZ" was pressed in it, and otherwise whatever the session's
\* LAST_KMZ held before the run (possibly made for other filters, or nothing).
C8_KmzCarriedInSession ==
    [][vstatus' = "done" =>
          /\ offered'.html = map_html(user_zip', frames'[4], hashseed')
          /\ offered'.kmz = IF widgets'.preparar
                            THEN build_kmz(user_zip', frames'[4], hashseed')
                            ELSE session_state.LAST_KMZ
          /\ session_state'.LAST_KMZ = offered'.kmz]_vars

\* a run that offers a KMZ prepared in an earlier run for other filters
C8_Witness ==
    /\ vstatus = "done"
    /\ ~widgets.preparar
    /\ offered.kmz.set
    /\ offered.kmz # build_kmz(user_zip, frames[4], hashseed)
    /\ offered.html = map_html(user_zip, frames[4], hashseed)

(***************************************************************************)
(* C9                                                                      *)
(***************************************************************************)
\* C9: every polygon of an exported document has at least one vertex: in the
\* district KMZ every polygon placemark has coordinates, and in the viewer's
\* KMZ every <Polygon> of every placemark has a non-empty outer boundary.
C9_PolygonsHaveVertices ==
    /\ kml.made =>
          \A f \in 1..Len(kml.folders) :
              \A i \in PolygonIdx(kml.folders[f].items) :
                  Len(kml.folders[f].items[i].outer) >= 1
    /\ offered.kmz.set =>
          \A f \in 1..Len(offered.kmz.folders) :
              \A k \in 1..Len(offered.kmz.folders[f].placemarks) :
                  LET g == offered.kmz.folders[f].placemarks[k].kml_geom
                  IN  \A q \in 1..Len(g.polys) : Len(g.polys[q].outer) >= 1

(***************************************************************************)
(* C10                                                                     *)
(***************************************************************************)
PassesSelect(i) ==
    /\ widgets.dl_sel.all \/ user_zip[i].dl = widgets.dl_sel.v
    /\ widgets.mun_sel.all \/ user_zip[i].mun = widgets.mun_sel.v

Increasing(q) == \A i, j \in 1..Len(q) : i < j => q[i] < q[j]

====
